---- MODULE Spec2Model ----
(***************************************************************************)
(* Pagination and PDF export of the naraworks proposal editor.             *)
(*                                                                         *)
(* These parts of the frontend are modelled:                               *)
(*   - the Editor component's "Pagination logic" effect: a debounced       *)
(*     timer whose callback checkPagination walks the blocks of the        *)
(*     ProseMirror content area and writes a top margin (the leading       *)
(*     spacer) and a data-page-break attribute on the blocks it pushes to  *)
(*     the next page (specification Spec);                                 *)
(*   - utils/pdfGenerator.ts generatePdf: counter-override injection,      *)
(*     raster capture, slicing of the captured image into A4 pages and     *)
(*     save (specification SpecPdf);                                       *)
(*   - the same timer against a clock, each pass recording what it found   *)
(*     on the blocks (specification SpecDebounce);                         *)
(*   - the callers of generatePdf, handleExportPDF of the editor page and  *)
(*     the PDF effect of the dashboard (specification SpecExportUi);       *)
(*   - the page setup dialog of components/Editor.tsx and applyPageSetup   *)
(*     (specification SpecPageSetup);                                      *)
(*   - the paper element as html-to-image captures it, laid out by the     *)
(*     pagination pass and then cut by generatePdf (specification          *)
(*     SpecPaperExport);                                                   *)
(*   - the pagination timer under weak fairness of its pending callback    *)
(*     (specification SpecScheduler), and the dashboard's download cycle   *)
(*     under weak fairness of its promise and timer steps (specification   *)
(*     SpecDashboard);                                                     *)
(*   - several handleExportPDF invocations in flight on one paper element  *)
(*     (specification SpecExports);                                        *)
(*   - the editor page's query, local title and content state, save        *)
(*     mutation and isSaving flag (specification SpecEditorPage).          *)
(*                                                                         *)
(* Lengths are integers: offsetHeight is an integer number of CSS pixels,  *)
(* the bottom margin is read through parseInt, and the slicing loop is     *)
(* modelled in whole output units.                                         *)
(***************************************************************************)
EXTENDS Integers, Sequences, FiniteSets, TLC

VARIABLES
    geom,        \* page geometry used by checkPagination
    dom,         \* what checkPagination's two DOM lookups find
    editor,      \* useEditor(): FALSE while it is null, TRUE once created
    mounted,     \* the Editor component is mounted
    blocks,      \* contentArea.children, in document order
    timers,      \* the browser's table of pending timeouts (ids)
    timeout,     \* id captured by the current effect's cleanup, 0 if none
    nextTimer,   \* next id setTimeout hands out
    cleared,     \* ids clearTimeout removed while they were pending
    ran,         \* ids whose callback (checkPagination) has run
    passLog,     \* what the last checkPagination computed, block by block
    now,         \* the clock, in milliseconds
    due,         \* pending timeout id -> the time from which it may fire
    lastMutation,       \* the time the pagination effect last ran
    firedSinceMutation, \* a timeout has fired since then
    found,       \* the spacers and flags the last pass found on the blocks
    atScheduling,       \* the blocks as they were when the timeout was set
    headerFooterInput,  \* page setup dialog: the four header/footer texts
    marginInput,        \* page setup dialog: the four margin texts
    showHeaderFooterDialog, \* the page setup dialog is open
    lastRun,     \* commands of the last chain the page setup has run
    pc,          \* generatePdf: control state of the call
    styleEl,     \* a <style id="pdf-export-styles"> is attached to head
    cssRules,    \* styleEl.innerHTML: marker class number -> forced content
    classes,     \* per page-number marker: its temporary pdf-page-N classes
    numMarkers,  \* how many .rm-page-number elements the element contains
    elementPresent,     \* document.getElementById(elementId) finds it
    backgroundImage,    \* element.style.backgroundImage
    originalBackground, \* generatePdf's local of that name
    pdfHeight,   \* pdf.internal.pageSize.getHeight()
    imgHeight,   \* pdfWidth * ratio, the scaled height of the capture
    heightLeft,  \* slicing loop local
    position,    \* slicing loop local
    pageNumber,  \* slicing loop local
    pdfPages,    \* number of pages of the jsPDF document
    images,      \* addImage calls: the page drawn on and the y offset
    saved,       \* pdf.save() has emitted the file
    raised,      \* the error raised inside the last generatePdf call
    thrown,      \* the error generatePdf rejected with (NoError: none)
    onPage,      \* the page the user is on: "editor" or "dashboard"
    pageMounted, \* that page is still mounted
    uiPc,        \* where the page's export handler is
    isSaving,           \* editor page state
    isGeneratingPdf,    \* dashboard state
    pdfTargetProposal,  \* dashboard state: TRUE when not null
    notices,     \* alert() texts shown since the last click
    exports,     \* editor page: the handleExportPDF invocations under way
    server,      \* the proposal as the persistence layer holds it
    proposal,    \* editor page: the data of useQuery(['proposal', id])
    fetching,    \* editor page: a fetch of that query is in flight
    title,       \* editor page state
    content,     \* editor page state
    html,        \* editor.getHTML() of the page's Editor
    requests,    \* update requests (mutations) in flight
    typed        \* the last text the user has typed

clockVars == <<now, due, lastMutation, firedSinceMutation, atScheduling>>
sessionVars == <<exports, server, proposal, fetching, title, content, html,
                 requests, typed>>
setupVars == <<headerFooterInput, marginInput, showHeaderFooterDialog, lastRun>>
paperVars == <<geom, dom, editor, mounted, blocks, timers, timeout, nextTimer,
               cleared, ran, passLog, clockVars, found, setupVars>>
layoutVars == <<paperVars, sessionVars>>
pdfVars == <<pc, styleEl, cssRules, classes, numMarkers, elementPresent,
             backgroundImage, originalBackground, pdfHeight, imgHeight,
             heightLeft, position, pageNumber, pdfPages, images, saved, raised,
             thrown>>
uiVars == <<onPage, pageMounted, uiPc, isSaving, isGeneratingPdf,
            pdfTargetProposal, notices>>
vars == <<layoutVars, setupVars, pdfVars, uiVars>>

----------------------------------------------------------------------------
(* Bounds of the model *)

MaxBlocks == 3
MaxTimers == 2
MaxMarkers == 2
MaxFullPages == 2
MaxTime == 1500

----------------------------------------------------------------------------
(* Page geometry.  The three copies of the Editor component fix it to the  *)
(* constants below; the pass itself is written over a geometry record so   *)
(* that the worked example of the design notes (1000/50/50) can be run     *)
(* through the same code.                                                  *)

PAGE_HEIGHT == 1123
MARGIN_TOP == 75
MARGIN_BOTTOM == 75

CodeGeometry ==
    [pageHeight |-> PAGE_HEIGHT, marginTop |-> MARGIN_TOP,
     marginBottom |-> MARGIN_BOTTOM]

ScenarioGeometry ==
    [pageHeight |-> 1000, marginTop |-> 50, marginBottom |-> 50]

Geometries == {CodeGeometry, ScenarioGeometry}

Band(g) == g.pageHeight - g.marginTop - g.marginBottom

\* The blocks the model draws from, as <<offsetHeight, bottom margin>> (the
\* margin is parseInt of the computed margin-bottom).  They are placed around
\* the edges of the printable band: small blocks, the flush-fit complement
\* of 200 with and without a bottom margin, and a block taller than the band.
BlockKinds(g) ==
    {<<100, 0>>, <<200, 0>>, <<Band(g) - 200, 0>>, <<Band(g) - 200, 85>>,
     <<Band(g) + 27, 0>>}

----------------------------------------------------------------------------
(* checkPagination                                                         *)

Block(h, mb) ==
    [offsetHeight |-> h, marginBottom |-> mb, marginTop |-> 0,
     pageBreak |-> FALSE]

\* Mutant: the reset loop is missing.
ResetNothing(b) == b

\* "Reset all margins first"
ResetBlock(b) == [b EXCEPT !.marginTop = 0, !.pageBreak = FALSE]

\* Mutant: currentY declared outside checkPagination, so that a pass starts
\* where the pass before it ended.
StartYStale(g) ==
    IF passLog = <<>> THEN g.marginTop ELSE passLog[Len(passLog)].after

\* let currentY = MARGIN_TOP
StartY(g) == g.marginTop

\* Mutant: every block is measured against the first page.
PageIndexFirstPage(blockTop, g) == 0

\* Math.floor(blockTop / PAGE_HEIGHT)
PageIndex(blockTop, g) == blockTop \div g.pageHeight

\* pageStart + PAGE_HEIGHT - MARGIN_BOTTOM
ValidContentEnd(pageIndex, g) ==
    pageIndex * g.pageHeight + g.pageHeight - g.marginBottom

\* Mutant: the next page's content start without its top margin.
NextPageStartNoMargin(pageIndex, g) == (pageIndex + 1) * g.pageHeight

\* (pageIndex + 1) * PAGE_HEIGHT + MARGIN_TOP
NextPageContentStart(pageIndex, g) ==
    (pageIndex + 1) * g.pageHeight + g.marginTop

\* Mutant: >= in place of >.
OverflowsOrTouches(blockBottom, validContentEnd) ==
    blockBottom >= validContentEnd

\* if (blockBottom > validContentEnd)
Overflows(blockBottom, validContentEnd) == blockBottom > validContentEnd

\* Mutant: the comparison turned round.
SpacerAppliesInverted(spacer) == spacer < 0

\* if (spacer > 0)
SpacerApplies(spacer) == spacer > 0

\* Mutant: = in place of +=.
AdvanceAssign(currentY, blockHeight, marginBottom) ==
    blockHeight + marginBottom

\* currentY += blockHeight + marginBottom
Advance(currentY, blockHeight, marginBottom) ==
    currentY + blockHeight + marginBottom

\* The body of blocks.forEach((block) => ...): the block as the iteration
\* leaves it, the new currentY, and a record of the locals of the iteration.
PlaceBlock(b, index, currentY, g) ==
    LET blockHeight == b.offsetHeight
        marginBottom == b.marginBottom
        blockTop == currentY
        blockBottom == currentY + blockHeight
        pageIndex == PageIndex(blockTop, g)
        validContentEnd == ValidContentEnd(pageIndex, g)
        nextPageContentStart == NextPageContentStart(pageIndex, g)
        spacer == nextPageContentStart - blockTop
        over == Overflows(blockBottom, validContentEnd)
        pushed == over /\ SpacerApplies(spacer)
        after == IF pushed
                 THEN nextPageContentStart + blockHeight + marginBottom
                 ELSE Advance(currentY, blockHeight, marginBottom)
    IN  [block |-> IF pushed
                   THEN [b EXCEPT !.marginTop = spacer, !.pageBreak = TRUE]
                   ELSE b,
         currentY |-> after,
         entry |-> [index |-> index, blockTop |-> blockTop,
                    blockBottom |-> blockBottom, pageIndex |-> pageIndex,
                    validContentEnd |-> validContentEnd, overflow |-> over,
                    spacer |-> spacer, pushed |-> pushed,
                    before |-> currentY, after |-> after]]

\* blocks.forEach from index i on, carrying currentY forward.
RECURSIVE ForEach(_, _, _, _)
ForEach(bs, i, acc, g) ==
    IF i > Len(bs) THEN acc
    ELSE LET r == PlaceBlock(bs[i], i, acc.currentY, g)
         IN  ForEach(bs, i + 1,
                     [blocks |-> Append(acc.blocks, r.block),
                      log |-> Append(acc.log, r.entry),
                      currentY |-> r.currentY], g)

Reverse(s) == [i \in 1..Len(s) |-> s[Len(s) + 1 - i]]

\* Mutant: the blocks are walked from the last to the first.
LayoutPassFromEnd(bs, g) ==
    LET r == ForEach(Reverse([i \in 1..Len(bs) |-> ResetBlock(bs[i])]), 1,
                     [blocks |-> <<>>, log |-> <<>>, currentY |-> StartY(g)], g)
    IN  [blocks |-> Reverse(r.blocks), log |-> Reverse(r.log),
         currentY |-> r.currentY]

\* The layout pass over the blocks of the content area: reset, then walk.
LayoutPass(bs, g) ==
    ForEach([i \in 1..Len(bs) |-> ResetBlock(bs[i])], 1,
            [blocks |-> <<>>, log |-> <<>>, currentY |-> StartY(g)], g)

\* (leadingSpacer, startsNewPage) of every block
Layout(bs) == [i \in 1..Len(bs) |-> <<bs[i].marginTop, bs[i].pageBreak>>]

----------------------------------------------------------------------------
(* The "Pagination logic" effect of the Editor component                   *)

\* What the DOM holds for the component's id prop: no element with that id
\* (or no id: getElementById('')), the paper element without a .ProseMirror
\* descendant, or the paper with its content area.
DomStates == {"none", "paper", "contentArea"}

\* document.getElementById(id || '') is not null
PaperFound(d) == d \in {"paper", "contentArea"}

\* Mutant: the second early return is missing.
ContentAreaAssumed(d) == TRUE

\* paper.querySelector('.ProseMirror') is not null
ContentAreaFound(d) == d = "contentArea"

\* Documents the editor can hold: up to n blocks, freshly rendered (no
\* inline top margin, no data-page-break attribute).
RECURSIVE Documents(_, _)
Documents(g, n) ==
    IF n = 0 THEN {<<>>}
    ELSE LET shorter == Documents(g, n - 1)
         IN  shorter \cup
             {Append(d, Block(k[1], k[2])) :
                 d \in {e \in shorter : Len(e) = n - 1}, k \in BlockKinds(g)}

\* Mutant: the effect returns no cleanup, the old timeout stays pending.
ClearTimeoutNoop(table, id) == table

\* clearTimeout(id) on the browser's timer table
ClearTimeout(table, id) == table \ {id}

\* The effect's cleanup followed by the effect body, as React runs them when
\* the dependency editor.getHTML() has changed:
\*     return () => clearTimeout(timeout);
\*     if (!editor) return;
\*     const timeout = setTimeout(checkPagination, 500);
Reschedule ==
    /\ nextTimer <= MaxTimers
    /\ timers' = ClearTimeout(timers, timeout) \cup {nextTimer}
    /\ cleared' = cleared \cup (timers \ ClearTimeout(timers, timeout))
    /\ timeout' = nextTimer
    /\ nextTimer' = nextTimer + 1

InitLayout ==
    /\ geom \in Geometries
    /\ dom \in DomStates
    /\ blocks \in Documents(geom, MaxBlocks)
    /\ editor = FALSE
    /\ mounted = TRUE
    /\ timers = {}
    /\ timeout = 0
    /\ nextTimer = 1
    /\ cleared = {}
    /\ ran = {}
    /\ passLog = <<>>

\* useEditor (immediatelyRender: false) returns the editor on a later
\* render; the effect, which returned early while editor was null, now runs.
EditorReady ==
    /\ mounted /\ ~editor
    /\ editor' = TRUE
    /\ Reschedule
    /\ UNCHANGED <<geom, dom, mounted, blocks, ran, passLog, setupVars,
                   sessionVars, pdfVars, uiVars>>

\* A transaction inserts a new block at position i (1 = before the first).
InsertBlock ==
    /\ mounted /\ editor
    /\ Len(blocks) < MaxBlocks
    /\ \E i \in 1..(Len(blocks) + 1), k \in BlockKinds(geom) :
          blocks' = SubSeq(blocks, 1, i - 1) \o <<Block(k[1], k[2])>>
                    \o SubSeq(blocks, i, Len(blocks))
    /\ Reschedule
    /\ UNCHANGED <<geom, dom, editor, mounted, ran, passLog, setupVars,
                   sessionVars, pdfVars, uiVars>>

\* A transaction removes block i.
DeleteBlock ==
    /\ mounted /\ editor
    /\ \E i \in 1..Len(blocks) :
          blocks' = SubSeq(blocks, 1, i - 1) \o SubSeq(blocks, i + 1, Len(blocks))
    /\ Reschedule
    /\ UNCHANGED <<geom, dom, editor, mounted, ran, passLog, setupVars,
                   sessionVars, pdfVars, uiVars>>

\* A transaction changes the content or the paragraph spacing of block i:
\* its rendered height and bottom margin change (or stay as they were), the
\* inline top margin and attribute written by an earlier pass stay.
EditBlock ==
    /\ mounted /\ editor
    /\ \E i \in 1..Len(blocks), k \in BlockKinds(geom) :
          blocks' = [blocks EXCEPT ![i].offsetHeight = k[1],
                                   ![i].marginBottom = k[2]]
    /\ Reschedule
    /\ UNCHANGED <<geom, dom, editor, mounted, ran, passLog, setupVars,
                   sessionVars, pdfVars, uiVars>>

\* Mutant: the callback works on the blocks its closure captured when the
\* timeout was set.
ChildrenAtScheduling(bs) == atScheduling

\* Array.from(contentArea.children), offsetHeight and getComputedStyle: the
\* live children and their sizes, read when the pass runs.
Children(bs) == bs

\* checkPagination: the two early returns, then the layout pass.
\*     const paper = document.getElementById(id || ''); if (!paper) return;
\*     const contentArea = paper.querySelector('.ProseMirror');
\*     if (!contentArea) return;
CheckPagination(bs, log, d, g) ==
    IF ~PaperFound(d) THEN [blocks |-> bs, log |-> log]
    ELSE IF ~ContentAreaFound(d) THEN [blocks |-> bs, log |-> log]
    ELSE LET pass == LayoutPass(bs, g)
         IN  [blocks |-> pass.blocks, log |-> pass.log]

\* A pending timeout expires and the browser calls checkPagination.
TimerFire ==
    /\ \E id \in timers :
          /\ timers' = timers \ {id}
          /\ ran' = ran \cup {id}
    /\ LET r == CheckPagination(Children(blocks), passLog, dom, geom)
       IN  /\ blocks' = r.blocks
           /\ passLog' = r.log
    /\ UNCHANGED <<geom, dom, editor, mounted, timeout, nextTimer, cleared,
                   setupVars, sessionVars, pdfVars, uiVars>>

\* The component unmounts: React runs the effect's cleanup.
Unmount ==
    /\ mounted
    /\ mounted' = FALSE
    /\ timers' = ClearTimeout(timers, timeout)
    /\ cleared' = cleared \cup (timers \ ClearTimeout(timers, timeout))
    /\ UNCHANGED <<geom, dom, editor, blocks, timeout, nextTimer, ran, passLog,
                   setupVars, sessionVars, pdfVars, uiVars>>

----------------------------------------------------------------------------
(* The debounce timer against the clock.  The actions above say which       *)
(* timeouts are pending; the ones below add when the browser may run them:  *)
(* a timeout set at time t with delay d runs at some time >= t + d.         *)

\* setTimeout(checkPagination, 500)
DEBOUNCE_DELAY == 500

\* Steps by which the clock advances between two events.
TickSteps == {250, 500}

\* Mutant: setTimeout(checkPagination) with the delay left out.
DueAtOnce(t) == t

\* The earliest time a timeout set at time t runs.
DueAt(t) == t + DEBOUNCE_DELAY

InitClock ==
    /\ now = 0
    /\ due = <<>>
    /\ lastMutation = 0
    /\ firedSinceMutation = FALSE
    /\ found = <<>>
    /\ atScheduling = <<>>

\* Time passes.
Tick ==
    /\ \E d \in TickSteps :
          /\ now + d <= MaxTime
          /\ now' = now + d
    /\ UNCHANGED <<due, lastMutation, firedSinceMutation, found, atScheduling,
                   geom, dom, editor,
                   mounted, blocks, timers, timeout, nextTimer, cleared, ran,
                   passLog, setupVars, sessionVars, pdfVars, uiVars>>

\* The clock's part of Reschedule: the new timeout gets its due time.
Scheduled ==
    /\ due' = [id \in timers' |-> IF id = timeout' THEN DueAt(now) ELSE due[id]]
    /\ lastMutation' = now
    /\ firedSinceMutation' = FALSE
    /\ UNCHANGED <<now, found, atScheduling>>

TimedEditorReady == EditorReady /\ Scheduled

TimedEditBlock == EditBlock /\ Scheduled

\* The browser runs a timeout whose time has come.
TimedTimerFire ==
    /\ TimerFire
    /\ \A id \in timers \ timers' : now >= due[id]
    /\ due' = [id \in timers' |-> due[id]]
    /\ firedSinceMutation' = TRUE
    /\ found' = Layout(blocks)
    /\ UNCHANGED <<now, lastMutation, atScheduling>>

TimedUnmount ==
    /\ Unmount
    /\ due' = [id \in timers' |-> due[id]]
    /\ UNCHANGED <<now, lastMutation, firedSinceMutation, found, atScheduling>>

----------------------------------------------------------------------------
(* Page setup (components/Editor.tsx): the dialog's inputs and              *)
(* applyPageSetup.  A text is a sequence of characters.  The margin inputs  *)
(* are <input type="number">, whose value is a number's text or, for        *)
(* anything else the user types, the empty text.                            *)

\* Number(x) || 50
MARGIN_FALLBACK == 50

\* useState('72') for each of the four margins
DefaultMarginInput == <<"7", "2">>

\* Texts a margin input can hold.
MarginInputs == {DefaultMarginInput, <<"0">>, <<>>, <<"-", "5">>}

\* Texts of the header and footer inputs.
HeaderFooterInputs ==
    [headerLeft : {"", "L"}, headerRight : {"", "R"},
     footerLeft : {"", "F"}, footerRight : {"{page}", ""}]

Sides == {"top", "bottom", "left", "right"}

Digit == {"0", "1", "2", "3", "4", "5", "6", "7", "8", "9"}

DigitValue(c) ==
    CASE c = "0" -> 0 [] c = "1" -> 1 [] c = "2" -> 2 [] c = "3" -> 3
      [] c = "4" -> 4 [] c = "5" -> 5 [] c = "6" -> 6 [] c = "7" -> 7
      [] c = "8" -> 8 [] c = "9" -> 9

RECURSIVE DigitsValue(_)
DigitsValue(s) ==
    IF s = <<>> THEN 0
    ELSE 10 * DigitsValue(SubSeq(s, 1, Len(s) - 1)) + DigitValue(s[Len(s)])

\* Number(text) for texts made of a sign and decimal digits: the empty text
\* is 0, a text that is not a number is NaN.
Number(s) ==
    IF s = <<>> THEN [nan |-> FALSE, val |-> 0]
    ELSE LET neg == s[1] = "-"
             body == IF neg THEN Tail(s) ELSE s
         IN  IF body # <<>> /\ \A i \in 1..Len(body) : body[i] \in Digit
             THEN [nan |-> FALSE,
                   val |-> IF neg THEN 0 - DigitsValue(body)
                           ELSE DigitsValue(body)]
             ELSE [nan |-> TRUE, val |-> 0]

\* n || d: d when n is NaN or 0
Or(n, d) == IF n.nan \/ n.val = 0 THEN d ELSE n.val

\* const margins = { top: Number(marginTop) || 50, ... }
Margins(input) == [side \in Sides |-> Or(Number(input[side]), MARGIN_FALLBACK)]

\* Mutant: the chain without updateFooterContent.
ChainWithoutFooter(hf, m) ==
    <<[name |-> "focus", args |-> <<>>],
      [name |-> "updateHeaderContent",
       args |-> <<hf.headerLeft, hf.headerRight>>],
      [name |-> "updateMargins", args |-> <<m>>]>>

\* editor.chain().focus().updateHeaderContent(headerLeft, headerRight)
\*     .updateFooterContent(footerLeft, footerRight).updateMargins(margins)
Chain(hf, m) ==
    <<[name |-> "focus", args |-> <<>>],
      [name |-> "updateHeaderContent",
       args |-> <<hf.headerLeft, hf.headerRight>>],
      [name |-> "updateFooterContent",
       args |-> <<hf.footerLeft, hf.footerRight>>],
      [name |-> "updateMargins", args |-> <<m>>]>>

\* The dialog as the component first renders it.
InitSetup ==
    /\ headerFooterInput = [headerLeft |-> "", headerRight |-> "",
                            footerLeft |-> "", footerRight |-> "{page}"]
    /\ marginInput = [side \in Sides |-> DefaultMarginInput]
    /\ showHeaderFooterDialog = FALSE
    /\ lastRun = <<>>

\* The dialog holding what the user has typed into it.
InitSetupTyped ==
    /\ headerFooterInput \in HeaderFooterInputs
    /\ marginInput \in [Sides -> MarginInputs]
    /\ showHeaderFooterDialog = FALSE
    /\ lastRun = <<>>

\* useEditor returns the editor.
EditorCreated ==
    /\ ~editor
    /\ editor' = TRUE
    /\ UNCHANGED <<geom, dom, mounted, blocks, timers, timeout, nextTimer,
                   cleared, ran, passLog, clockVars, found, setupVars, sessionVars, pdfVars,
                   uiVars>>

\* The toolbar button: setShowHeaderFooterDialog(!showHeaderFooterDialog)
ToggleDialog ==
    /\ editor
    /\ showHeaderFooterDialog' = ~showHeaderFooterDialog
    /\ UNCHANGED <<headerFooterInput, marginInput, lastRun, geom, dom, editor,
                   mounted, blocks, timers, timeout, nextTimer, cleared, ran,
                   passLog, clockVars, found, sessionVars, pdfVars, uiVars>>

\* applyPageSetup, called with the editor there or not.
ApplyPageSetup ==
    /\ IF ~editor
       THEN UNCHANGED <<lastRun, showHeaderFooterDialog>>
       ELSE /\ lastRun' = Chain(headerFooterInput, Margins(marginInput))
            /\ showHeaderFooterDialog' = FALSE
    /\ UNCHANGED <<headerFooterInput, marginInput, geom, dom, editor, mounted,
                   blocks, timers, timeout, nextTimer, cleared, ran, passLog,
                   clockVars, found, sessionVars, pdfVars, uiVars>>

----------------------------------------------------------------------------
(* generatePdf (utils/pdfGenerator.ts)                                     *)

\* new jsPDF('p', 'mm', 'a4'): the page is 297 mm high
A4_HEIGHT == 297

\* Output page heights: the A4 page of the code and the page height of the
\* worked example of the design notes.
PdfHeights == {A4_HEIGHT, 1000}

\* Scaled image heights a capture can give: k full pages plus a remainder.
ImgHeights(P) ==
    {k * P + r : k \in 0..MaxFullPages, r \in {0, 1, 400 % P, P - 1}} \ {0}

\* Inline background-image values of the exported element.
Backgrounds == {"", "linear-gradient"}

Markers == 1..numMarkers

\* Mutant: the forEach index used as the page number.
PageNumFromZero(index) == index

\* const pageNum = index + 1  (index is the 0-based forEach index)
PageNum(index) == index + 1

\* Mutant: >= in place of >.
LoopContinuesAtZero(hl) == hl >= 0

\* while (heightLeft > 0)
LoopContinues(hl) == hl > 0

\* Errors a call can end with.
NoError == "none"
ElementNotFound == "Element not found"
CaptureError == "toJpeg rejected"
PdfError == "jsPDF threw"

\* Mutant: the catch block logs and swallows the error.
Swallow(e) == NoError

\* catch (error) { console.error(...); throw error; }
Rethrow(e) == e

\* if (pageNumber > 0) pdf.addPage()
\* Mutant: the whole image height is taken off in one iteration.
HeightLeftLessImage(hl, P) == hl - imgHeight

\* heightLeft -= pdfHeight
HeightLeftLess(hl, P) == hl - P

NeedsAddPage(n) == n > 0

InitPdf ==
    /\ pc = "idle"
    /\ numMarkers \in 0..MaxMarkers
    /\ elementPresent \in BOOLEAN
    /\ backgroundImage \in Backgrounds
    /\ pdfHeight \in PdfHeights
    /\ styleEl = FALSE
    /\ cssRules = <<>>
    /\ classes = [m \in 1..numMarkers |-> {}]
    /\ originalBackground = ""
    /\ imgHeight = 0
    /\ heightLeft = 0
    /\ position = 0
    /\ pageNumber = 0
    /\ pdfPages = 0
    /\ images = <<>>
    /\ saved = FALSE
    /\ raised = NoError
    /\ thrown = NoError

\* generatePdf is called and runs up to `await toJpeg(...)`; with no element
\* it throws before the try block.
GeneratePdf ==
    /\ pc \in {"idle", "done", "failed"}
    /\ saved' = FALSE
    /\ IF ~elementPresent
       THEN /\ pc' = "failed"
            /\ raised' = ElementNotFound
            /\ thrown' = ElementNotFound
            /\ UNCHANGED <<styleEl, cssRules, classes, backgroundImage,
                           originalBackground>>
       ELSE /\ pc' = "capturing"
            /\ raised' = NoError
            /\ thrown' = NoError
            /\ originalBackground' = backgroundImage
            /\ backgroundImage' = "none"
            /\ styleEl' = TRUE
            /\ classes' = [m \in Markers |->
                               classes[m] \cup {PageNum(m - 1)}]
            /\ cssRules' = [m \in Markers |->
                               [class |-> PageNum(m - 1),
                                content |-> PageNum(m - 1)]]
    /\ UNCHANGED <<numMarkers, elementPresent, pdfHeight, imgHeight, heightLeft,
                   position, pageNumber, pdfPages, images, layoutVars>>

\* toJpeg resolves with an image whose scaled height is h: the cleanup after
\* the await, the jsPDF document is created and the locals of the slicing
\* loop are initialised.
Captured(h) ==
    /\ pc = "capturing"
    /\ classes' = [m \in Markers |-> classes[m] \ {PageNum(m - 1)}]
    /\ styleEl' = FALSE
    /\ cssRules' = <<>>
    /\ backgroundImage' = originalBackground
    /\ pdfPages' = 1
    /\ imgHeight' = h
    /\ heightLeft' = h
    /\ position' = 0
    /\ pageNumber' = 0
    /\ images' = <<>>
    /\ pc' = "slicing"
    /\ UNCHANGED <<numMarkers, elementPresent, originalBackground, pdfHeight,
                   saved, raised, thrown, layoutVars>>

\* toJpeg resolves; the height of the image is left open.
CaptureResolve == \E h \in ImgHeights(pdfHeight) : Captured(h)

\* toJpeg rejects: control enters the catch block, which logs and rethrows.
CaptureReject ==
    /\ pc = "capturing"
    /\ pc' = "failed"
    /\ raised' = CaptureError
    /\ thrown' = Rethrow(raised')
    /\ UNCHANGED <<styleEl, cssRules, classes, numMarkers, elementPresent,
                   backgroundImage, originalBackground, pdfHeight, imgHeight,
                   heightLeft, position, pageNumber, pdfPages, images, saved,
                   layoutVars>>

\* One iteration of the slicing loop.
SliceStep ==
    /\ pc = "slicing"
    /\ LoopContinues(heightLeft)
    /\ pdfPages' = IF NeedsAddPage(pageNumber) THEN pdfPages + 1 ELSE pdfPages
    /\ images' = Append(images, [page |-> pdfPages', y |-> 0 - position])
    /\ position' = position + pdfHeight
    /\ heightLeft' = HeightLeftLess(heightLeft, pdfHeight)
    /\ pageNumber' = pageNumber + 1
    /\ UNCHANGED <<pc, styleEl, cssRules, classes, numMarkers, elementPresent,
                   backgroundImage, originalBackground, pdfHeight, imgHeight,
                   saved, raised, thrown, layoutVars>>

\* A jsPDF call (getImageProperties, addImage, save) throws: catch, rethrow.
SliceThrow ==
    /\ pc = "slicing"
    /\ pc' = "failed"
    /\ raised' = PdfError
    /\ thrown' = Rethrow(raised')
    /\ UNCHANGED <<styleEl, cssRules, classes, numMarkers, elementPresent,
                   backgroundImage, originalBackground, pdfHeight, imgHeight,
                   heightLeft, position, pageNumber, pdfPages, images, saved,
                   layoutVars>>

\* The loop has ended: pdf.save(`${filename}.pdf`) and normal return.
Save ==
    /\ pc = "slicing"
    /\ ~LoopContinues(heightLeft)
    /\ saved' = TRUE
    /\ pc' = "done"
    /\ UNCHANGED <<styleEl, cssRules, classes, numMarkers, elementPresent,
                   backgroundImage, originalBackground, pdfHeight, imgHeight,
                   heightLeft, position, pageNumber, pdfPages, images, raised,
                   thrown, layoutVars>>

----------------------------------------------------------------------------
(* The callers of generatePdf: app/editor/[id]/page.tsx handleExportPDF and *)
(* the PDF effect of app/dashboard/page.tsx.  One export is followed at a   *)
(* time: the editor page's button is pressed again only after the export    *)
(* it started has settled.                                                  *)

\* alert('PDF 생성 중 오류가 발생했습니다.')
EditorExportNotice == "editor: PDF export failed"

\* alert("PDF 생성에 실패했습니다.")
DashboardExportNotice == "dashboard: PDF generation failed"

\* alert("제안서 내용을 불러오는데 실패했습니다.")
FetchNotice == "dashboard: proposal fetch failed"

ExportNotices == {EditorExportNotice, DashboardExportNotice}

\* Mutant: the busy flag is cleared at the end of the try block only.
ClearedInTry(err) == err # NoError

\* finally { setIsSaving(false) } / finally { ...; setIsGeneratingPdf(false) }
BusyAfterFinally(err) == FALSE

\* How many handleExportPDF invocations may be under way at once: the
\* export button of the editor page is never disabled.
MaxExports == 2

Calls == 1..MaxExports

\* Texts (titles, contents) are numbers: 0 is the empty string, 1 the text
\* the server holds at first, and every text the user types is a new one.
Empty == 0

Stored == 1

\* How many texts the user types.
MaxTyped == 2

\* How many update requests may be in flight at once.
MaxRequests == 2

\* useQuery before its first fetch has resolved: data is undefined.
NoProposal == [present |-> FALSE, title |-> Empty, content |-> Empty]

\* The editor page has just been mounted: useState('') twice, the query
\* fetching, no Editor yet.
InitSession ==
    /\ server = [title |-> Stored, content |-> Stored]
    /\ proposal = NoProposal
    /\ fetching = TRUE
    /\ title = Empty
    /\ content = Empty
    /\ html = Empty
    /\ requests = {}
    /\ typed = Stored

InitUi ==
    /\ exports = [c \in Calls |-> [pc |-> "idle", originalBackground |-> ""]]
    /\ InitSession
    /\ onPage \in {"editor", "dashboard"}
    /\ pageMounted = TRUE
    /\ uiPc = "idle"
    /\ isSaving = FALSE
    /\ isGeneratingPdf = FALSE
    /\ pdfTargetProposal = FALSE
    /\ notices = {}

\* The editor page's export button: the guard, the busy flag, then the
\* handler waits for import('@/utils/pdfGenerator').
HandleExportPDF ==
    /\ onPage = "editor" /\ pageMounted /\ uiPc = "idle"
    /\ notices' = {}
    /\ IF ~elementPresent
       THEN UNCHANGED <<uiPc, isSaving>>
       ELSE /\ isSaving' = TRUE
            /\ uiPc' = "importing"
    /\ UNCHANGED <<onPage, pageMounted, isGeneratingPdf, pdfTargetProposal,
                   pdfVars, layoutVars>>

\* The import resolves and the handler calls generatePdf('proposal-content').
ImportResolve ==
    /\ onPage = "editor" /\ uiPc = "importing"
    /\ GeneratePdf
    /\ uiPc' = "awaiting"
    /\ UNCHANGED <<onPage, pageMounted, isSaving, isGeneratingPdf,
                   pdfTargetProposal, notices>>

\* The import rejects: catch and finally of handleExportPDF.
ImportReject ==
    /\ onPage = "editor" /\ uiPc = "importing"
    /\ notices' = notices \cup {EditorExportNotice}
    /\ isSaving' = BusyAfterFinally(CaptureError)
    /\ uiPc' = "idle"
    /\ UNCHANGED <<onPage, pageMounted, isGeneratingPdf, pdfTargetProposal,
                   pdfVars, layoutVars>>

\* generatePdf has settled: catch (if it rejected) and finally of
\* handleExportPDF.
ExportSettled ==
    /\ onPage = "editor" /\ uiPc = "awaiting"
    /\ pc \in {"done", "failed"}
    /\ notices' = IF thrown # NoError
                  THEN notices \cup {EditorExportNotice} ELSE notices
    /\ isSaving' = BusyAfterFinally(thrown)
    /\ uiPc' = "idle"
    /\ UNCHANGED <<onPage, pageMounted, isGeneratingPdf, pdfTargetProposal,
                   pdfVars, layoutVars>>

\* The dashboard's download button, up to the await of the proposal fetch.
HandleDownloadPdf ==
    /\ onPage = "dashboard" /\ pageMounted
    /\ IF isGeneratingPdf
       THEN UNCHANGED <<uiPc, isGeneratingPdf, notices>>
       ELSE /\ isGeneratingPdf' = TRUE
            /\ uiPc' = "fetching"
            /\ notices' = {}
    /\ UNCHANGED <<onPage, pageMounted, isSaving, pdfTargetProposal, pdfVars,
                   layoutVars>>

\* The fetch resolves: setPdfTargetProposal(fullProposal); the page renders
\* the hidden editor inside #hidden-pdf-editor and the PDF effect starts its
\* timer.  On a page that has been left the state update does nothing.
FetchResolve ==
    /\ onPage = "dashboard" /\ uiPc = "fetching"
    /\ IF pageMounted
       THEN /\ pdfTargetProposal' = TRUE
            /\ elementPresent' = TRUE
            /\ uiPc' = "timer"
       ELSE /\ uiPc' = "idle"
            /\ UNCHANGED <<pdfTargetProposal, elementPresent>>
    /\ UNCHANGED <<onPage, pageMounted, isSaving, isGeneratingPdf, notices, pc,
                   styleEl, cssRules, classes, numMarkers, backgroundImage,
                   originalBackground, pdfHeight, imgHeight, heightLeft,
                   position, pageNumber, pdfPages, images, saved, raised,
                   thrown, layoutVars>>

\* The fetch rejects: the catch block of handleDownloadPdf.
FetchReject ==
    /\ onPage = "dashboard" /\ uiPc = "fetching"
    /\ isGeneratingPdf' = FALSE
    /\ notices' = notices \cup {FetchNotice}
    /\ uiPc' = "idle"
    /\ UNCHANGED <<onPage, pageMounted, isSaving, pdfTargetProposal, pdfVars,
                   layoutVars>>

\* The effect's timer fires and its callback calls
\* generatePdf('hidden-pdf-editor').
PdfTimerFire ==
    /\ onPage = "dashboard" /\ uiPc = "timer"
    /\ GeneratePdf
    /\ uiPc' = "awaiting"
    /\ UNCHANGED <<onPage, pageMounted, isSaving, isGeneratingPdf,
                   pdfTargetProposal, notices>>

\* generatePdf has settled: catch (if it rejected) and finally of the timer
\* callback; with pdfTargetProposal null the hidden editor unmounts.
DownloadSettled ==
    /\ onPage = "dashboard" /\ uiPc = "awaiting"
    /\ pc \in {"done", "failed"}
    /\ notices' = IF thrown # NoError
                  THEN notices \cup {DashboardExportNotice} ELSE notices
    /\ pdfTargetProposal' = FALSE
    /\ isGeneratingPdf' = BusyAfterFinally(thrown)
    /\ elementPresent' = FALSE
    /\ uiPc' = "idle"
    /\ UNCHANGED <<onPage, pageMounted, isSaving, pc, styleEl, cssRules, classes,
                   numMarkers, backgroundImage, originalBackground, pdfHeight,
                   imgHeight, heightLeft, position, pageNumber, pdfPages,
                   images, saved, raised, thrown, layoutVars>>

\* The user leaves the page: its elements leave the document and the
\* cleanup of the dashboard's PDF effect clears a pending timer.  Handlers
\* that are waiting on a promise go on when it settles.
Navigate ==
    /\ pageMounted
    /\ pageMounted' = FALSE
    /\ elementPresent' = FALSE
    /\ uiPc' = IF uiPc = "timer" THEN "idle" ELSE uiPc
    /\ UNCHANGED <<onPage, isSaving, isGeneratingPdf, pdfTargetProposal, notices,
                   pc, styleEl, cssRules, classes, numMarkers, backgroundImage,
                   originalBackground, pdfHeight, imgHeight, heightLeft,
                   position, pageNumber, pdfPages, images, saved, raised,
                   thrown, layoutVars>>

----------------------------------------------------------------------------
(* Specifications                                                          *)

\* No export is going on (the editor specification leaves these alone).
PdfQuiet ==
    /\ InitPdf
    /\ numMarkers = 0
    /\ elementPresent = TRUE
    /\ backgroundImage = ""
    /\ pdfHeight = A4_HEIGHT

\* No editor is on the page (the export specification leaves these alone).
LayoutQuiet ==
    /\ InitLayout
    /\ InitClock
    /\ InitSetup
    /\ geom = CodeGeometry
    /\ dom = "contentArea"
    /\ blocks = <<>>

\* No export handler is running (the editor and generatePdf specifications
\* leave these alone).
UiQuiet ==
    /\ InitUi
    /\ onPage = "editor"

\* The paper and its content area are there: every timeout runs the pass.
Init ==
    /\ InitLayout
    /\ dom = "contentArea"
    /\ InitClock
    /\ InitSetup
    /\ PdfQuiet
    /\ UiQuiet

\* Time is left out: a pending timeout may run at any moment.
Next ==
    \/ EditorReady /\ UNCHANGED <<clockVars, found>>
    \/ InsertBlock /\ UNCHANGED <<clockVars, found>>
    \/ DeleteBlock /\ UNCHANGED <<clockVars, found>>
    \/ EditBlock /\ UNCHANGED <<clockVars, found>>
    \/ TimerFire /\ UNCHANGED <<clockVars, found>>
    \/ Unmount /\ UNCHANGED <<clockVars, found>>

\* The Editor component: edits, the debounce timer and the layout pass.
Spec == Init /\ [][Next]_vars

InitPageSetup ==
    /\ InitLayout
    /\ InitClock
    /\ geom = CodeGeometry
    /\ dom = "contentArea"
    /\ blocks = <<>>
    /\ PdfQuiet
    /\ UiQuiet
    /\ InitSetupTyped

NextPageSetup ==
    \/ EditorCreated
    \/ ToggleDialog
    \/ ApplyPageSetup

\* The page setup dialog of the Editor component.
SpecPageSetup == InitPageSetup /\ [][NextPageSetup]_vars

\* One or two blocks, edited again and again, with the clock running, on
\* a page that has the paper and its content area or lacks them.
InitDebounce ==
    /\ InitLayout
    /\ InitClock
    /\ InitSetup
    /\ PdfQuiet
    /\ UiQuiet
    /\ geom = CodeGeometry
    /\ Len(blocks) \in 1..2

NextDebounce ==
    \/ TimedEditorReady
    \/ TimedEditBlock
    \/ TimedTimerFire
    \/ TimedUnmount
    \/ Tick

\* The debounce timer with time; each pass records what it found.
SpecDebounce == InitDebounce /\ [][NextDebounce]_vars

InitExport == InitPdf /\ LayoutQuiet /\ UiQuiet

NextPdf ==
    \/ GeneratePdf /\ UNCHANGED uiVars
    \/ CaptureResolve /\ UNCHANGED uiVars
    \/ CaptureReject /\ UNCHANGED uiVars
    \/ SliceStep /\ UNCHANGED uiVars
    \/ SliceThrow /\ UNCHANGED uiVars
    \/ Save /\ UNCHANGED uiVars

\* One export after another through generatePdf.
SpecPdf == InitExport /\ [][NextPdf]_vars

\* On the editor page the exported element is the editor's paper; on the
\* dashboard the hidden editor is rendered only while pdfTargetProposal is
\* set.
InitExportUi ==
    /\ InitPdf
    /\ LayoutQuiet
    /\ InitUi
    /\ onPage = "dashboard" => ~elementPresent

NextExportUi ==
    \/ HandleExportPDF
    \/ ImportResolve
    \/ ImportReject
    \/ ExportSettled
    \/ HandleDownloadPdf
    \/ FetchResolve
    \/ FetchReject
    \/ PdfTimerFire
    \/ DownloadSettled
    \/ Navigate
    \/ CaptureResolve /\ UNCHANGED uiVars
    \/ CaptureReject /\ UNCHANGED uiVars
    \/ SliceStep /\ UNCHANGED uiVars
    \/ SliceThrow /\ UNCHANGED uiVars
    \/ Save /\ UNCHANGED uiVars

\* Exports started from the editor page and from the dashboard.
SpecExportUi == InitExportUi /\ [][NextExportUi]_vars

----------------------------------------------------------------------------
(* Properties                                                              *)

\* The timeout of the current effect has run checkPagination down to the
\* layout pass and no edit has come since: blocks and passLog are as that
\* pass left them.
PassIsCurrent == timeout # 0 /\ timeout \in ran /\ ContentAreaFound(dom)

\* Top of block i after its spacer has been inserted, and its bottom.
PlacedTop(i) == passLog[i].blockTop + blocks[i].marginTop
PlacedBottom(i) == PlacedTop(i) + blocks[i].offsetHeight

\* Printable band of the page that holds y.
BandStart(y) == (y \div geom.pageHeight) * geom.pageHeight + geom.marginTop
BandEnd(y) ==
    (y \div geom.pageHeight) * geom.pageHeight + geom.pageHeight
        - geom.marginBottom

\* C1 (as claimed): after a layout pass every block that is not taller than
\* the printable band lies inside the printable band of the page it is on:
\* its top, after the spacer, is at or below the band's start and its bottom
\* at or above the band's end.
NoSplit ==
    PassIsCurrent =>
        \A i \in 1..Len(blocks) :
            blocks[i].offsetHeight <= Band(geom) =>
                /\ PlacedTop(i) >= BandStart(PlacedTop(i))
                /\ PlacedBottom(i) <= BandEnd(PlacedTop(i))

\* C2 (as claimed): once generatePdf has returned or thrown, no style
\* element with id pdf-export-styles is attached and no page-number marker
\* carries a pdf-page-N class.
CleanAfterExport ==
    pc \in {"done", "failed"} =>
        /\ ~styleEl
        /\ \A m \in Markers : classes[m] = {}

\* C3: at most one recomputation is pending; a mutation leaves exactly one
\* timeout pending, the one it scheduled (until that one runs); a timeout
\* that was cancelled never runs checkPagination.
SinglePendingTimer ==
    /\ Cardinality(timers) <= 1
    /\ timers \subseteq {timeout}
    /\ (mounted /\ editor /\ timeout \notin ran) => timers = {timeout}
    /\ cleared \cap ran = {}

\* C3 witness: an edit has cancelled a pending timeout and scheduled a new
\* one, which is the only one pending.
SinglePendingTimerWitness ==
    /\ cleared # {}
    /\ timers = {timeout}
    /\ timeout \notin cleared

Ceil(a, b) == (a + b - 1) \div b

Min(a, b) == IF a < b THEN a ELSE b

\* The part of the image that output page k (1-based) shows: addImage put
\* the image at y = -position on a page pdfHeight high.
WindowLo(k) == 0 - images[k].y
WindowHi(k) == Min(WindowLo(k) + pdfHeight, imgHeight)

\* C4: an export that reaches save has produced exactly ceil(H/P) pages,
\* page k (0-based) shows the window [k*P, min((k+1)*P, H)), and the windows
\* in page order are non-empty, adjacent and cover [0, H).
SlicingComplete ==
    pc = "done" =>
        /\ imgHeight > 0
        /\ pdfPages = Ceil(imgHeight, pdfHeight)
        /\ Len(images) = pdfPages
        /\ \A k \in 1..Len(images) :
              /\ images[k].page = k
              /\ WindowLo(k) = (k - 1) * pdfHeight
              /\ WindowHi(k) = Min(k * pdfHeight, imgHeight)
              /\ WindowLo(k) < WindowHi(k)
              /\ k < Len(images) => WindowHi(k) = WindowLo(k + 1)
        /\ WindowLo(1) = 0
        /\ WindowHi(Len(images)) = imgHeight

\* C4 witness: height 2400 on pages of 1000 gives three pages, the third
\* showing a window of height 400.
SlicingScenarioB ==
    /\ pc = "done"
    /\ imgHeight = 2400
    /\ pdfHeight = 1000
    /\ pdfPages = 3
    /\ WindowHi(3) - WindowLo(3) = 400

\* C5: a second pass run on the blocks as the first pass left them (same
\* heights and bottom margins, the spacers and flags of the first pass still
\* on the blocks) gives every block the same spacer and flag.
Idempotent ==
    PassIsCurrent =>
        Layout(LayoutPass(blocks, geom).blocks) = Layout(blocks)

\* C5 witness: a pass has run and left a spacer and a page break on a block.
IdempotentWitness ==
    /\ PassIsCurrent
    /\ \E i \in 1..Len(blocks) :
          blocks[i].pageBreak /\ blocks[i].marginTop > 0

\* Heights and bottom margins of the blocks, in order.
Sizes(bs) == [i \in 1..Len(bs) |-> <<bs[i].offsetHeight, bs[i].marginBottom>>]

\* C6: a block whose bottom exceeds the printable end of the page holding
\* its top gets the spacer (pageIndex+1)*pageHeight + marginTop - top and the
\* page-break flag, so that it starts exactly at the next page's printable
\* start, and currentY becomes that start + height + bottom margin.  With
\* pageHeight 1000, margins 50/50 and zero-margin blocks of heights
\* 200, 700, 100, only the third block is pushed, by 100, to top 1050.
PushToNextPage ==
    PassIsCurrent =>
        /\ \A i \in 1..Len(blocks) :
              LET top == passLog[i].blockTop
                  page == top \div geom.pageHeight
                  nextStart == (page + 1) * geom.pageHeight + geom.marginTop
              IN  top + blocks[i].offsetHeight > BandEnd(top) =>
                      /\ blocks[i].marginTop = nextStart - top
                      /\ blocks[i].pageBreak
                      /\ PlacedTop(i) = nextStart
                      /\ passLog[i].after = nextStart + blocks[i].offsetHeight
                                                + blocks[i].marginBottom
        /\ (geom = ScenarioGeometry
              /\ Sizes(blocks) = <<<<200, 0>>, <<700, 0>>, <<100, 0>>>>) =>
              /\ Layout(blocks) = <<<<0, FALSE>>, <<0, FALSE>>, <<100, TRUE>>>>
              /\ PlacedTop(3) = 1050

\* C6 witness: the pass has run over the blocks of the worked example.
PushScenarioA ==
    /\ PassIsCurrent
    /\ geom = ScenarioGeometry
    /\ Sizes(blocks) = <<<<200, 0>>, <<700, 0>>, <<100, 0>>>>
    /\ blocks[3].pageBreak

\* C7: a block whose bottom equals the printable end of its page is not
\* pushed: no spacer, no page break, and currentY advances to its bottom
\* plus its bottom margin.
FlushFit ==
    PassIsCurrent =>
        \A i \in 1..Len(blocks) :
            LET top == passLog[i].blockTop
                bottom == top + blocks[i].offsetHeight
            IN  bottom = BandEnd(top) =>
                    /\ blocks[i].marginTop = 0
                    /\ ~blocks[i].pageBreak
                    /\ passLog[i].after = bottom + blocks[i].marginBottom

\* C7 witness: a pass met a block that ends exactly on the printable end.
FlushFitWitness ==
    /\ PassIsCurrent
    /\ \E i \in 1..Len(blocks) :
          /\ passLog[i].blockTop + blocks[i].offsetHeight
                = BandEnd(passLog[i].blockTop)
          /\ blocks[i].offsetHeight > 0

\* C8 (as claimed): a block taller than the printable band keeps spacer 0
\* and no page break, and currentY continues from its bottom plus its
\* bottom margin.
TallBlockLeftInPlace ==
    PassIsCurrent =>
        \A i \in 1..Len(blocks) :
            blocks[i].offsetHeight > Band(geom) =>
                /\ blocks[i].marginTop = 0
                /\ ~blocks[i].pageBreak
                /\ passLog[i].after = passLog[i].blockTop
                                        + blocks[i].offsetHeight
                                        + blocks[i].marginBottom

\* C8 (amended): the spacer computed for a block taller than the printable
\* band is positive, never zero or negative.  The block overflows whenever
\* its top is at or below the printable start of its page, and when it
\* overflows it is pushed like any other block: spacer to the next page's
\* printable start, page-break flag set, currentY continued from there.
\* Only when its top lies in the top margin of a page and its bottom does
\* not pass the printable end is it left in place.
TallBlockPushed ==
    PassIsCurrent =>
        \A i \in 1..Len(blocks) :
            blocks[i].offsetHeight > Band(geom) =>
                LET top == passLog[i].blockTop
                    bottom == top + blocks[i].offsetHeight
                    page == top \div geom.pageHeight
                    nextStart == (page + 1) * geom.pageHeight + geom.marginTop
                IN  /\ nextStart - top > 0
                    /\ top >= BandStart(top) => bottom > BandEnd(top)
                    /\ IF bottom > BandEnd(top)
                       THEN /\ blocks[i].marginTop = nextStart - top
                            /\ blocks[i].pageBreak
                            /\ passLog[i].after = nextStart
                                   + blocks[i].offsetHeight
                                   + blocks[i].marginBottom
                       ELSE /\ top < BandStart(top)
                            /\ blocks[i].marginTop = 0
                            /\ ~blocks[i].pageBreak
                            /\ passLog[i].after = bottom + blocks[i].marginBottom

\* C8 witness: a pass has pushed a block taller than the printable band.
TallBlockPushedWitness ==
    /\ PassIsCurrent
    /\ \E i \in 1..Len(blocks) :
          /\ blocks[i].offsetHeight > Band(geom)
          /\ blocks[i].pageBreak
          /\ blocks[i].marginTop > 0

\* C9: a pass visits every block once, in document order, and currentY
\* starts at the top margin, is handed from each block to the next and never
\* decreases.
OrderPreserved ==
    PassIsCurrent =>
        /\ Len(passLog) = Len(blocks)
        /\ \A i \in 1..Len(passLog) :
              /\ passLog[i].index = i
              /\ passLog[i].blockBottom - passLog[i].blockTop
                    = blocks[i].offsetHeight
              /\ passLog[i].before =
                    IF i = 1 THEN geom.marginTop ELSE passLog[i - 1].after
              /\ passLog[i].before <= passLog[i].after

\* C9 witness: a pass over at least two blocks, the second of which was
\* pushed.
OrderPreservedWitness ==
    /\ PassIsCurrent
    /\ Len(blocks) >= 2
    /\ blocks[2].pageBreak

\* C10: the spacers and flags a pass has given to the first i blocks are
\* those a pass over these i blocks alone gives, for every i; so two
\* documents with the same first i blocks agree on them, whatever follows.
NoBackwardDependency ==
    PassIsCurrent =>
        \A i \in 0..Len(blocks) :
            SubSeq(Layout(blocks), 1, i)
                = Layout(LayoutPass(SubSeq(blocks, 1, i), geom).blocks)

\* C10 witness: a pass over a document whose last block was pushed and
\* whose first block was not.
NoBackwardDependencyWitness ==
    /\ PassIsCurrent
    /\ Len(blocks) >= 2
    /\ ~blocks[1].pageBreak
    /\ blocks[Len(blocks)].pageBreak

\* C11: when a timeout fires and the paper element, or the .ProseMirror
\* content area inside it, is not there, checkPagination changes no block's
\* spacer or flag and schedules no timeout.
MissingContainerNoop ==
    [][(ran' # ran /\ dom # "contentArea") =>
          /\ blocks' = blocks
          /\ passLog' = passLog
          /\ nextTimer' = nextTimer
          /\ timers' \subseteq timers]_vars

\* C11 witness: the callback has run without a content area over a
\* document a pass would have pushed a block of.
MissingContainerWitness ==
    /\ dom = "paper"
    /\ timeout \in ran
    /\ Layout(LayoutPass(blocks, geom).blocks) # Layout(blocks)

\* C12 (as claimed): an export invoked while its target element is not in
\* the document is a no-op that is not reported as an error: no file is
\* emitted, no exception reaches the caller of generatePdf and no
\* export-failure notice is shown.
UnmountedExportIsNoop ==
    raised = ElementNotFound =>
        /\ ~saved
        /\ thrown = NoError
        /\ notices \cap ExportNotices = {}

Failures == {CaptureError, PdfError}

\* C13: when the capture or the slicing throws, no file is saved, generatePdf
\* rejects with that same error, and the handler that called it shows its
\* export-failure notice and clears its busy flag when the call settles.
AbortOnFailure ==
    [][/\ raised' \in Failures =>
             /\ pc' = "failed"
             /\ ~saved'
             /\ thrown' = raised'
       /\ (uiPc = "awaiting" /\ uiPc' = "idle" /\ raised \in Failures) =>
             /\ notices' \cap ExportNotices # {}
             /\ ~isSaving'
             /\ ~isGeneratingPdf']_vars

\* C13 witness: on the dashboard a capture has failed and the timer callback
\* has shown the notice and cleared the flag; nothing was saved.
AbortOnFailureWitness ==
    /\ onPage = "dashboard"
    /\ raised = CaptureError
    /\ uiPc = "idle"
    /\ DashboardExportNotice \in notices
    /\ ~isGeneratingPdf
    /\ ~saved

\* C14 (as claimed): once generatePdf has returned or thrown, the element's
\* inline backgroundImage is the value it had when the call began (the call
\* read it into originalBackground).
BackgroundRestored ==
    (pc \in {"done", "failed"} /\ raised # ElementNotFound) =>
        backgroundImage = originalBackground

\* C15 (as claimed): while the capture is in flight the style element and
\* every marker's class are in place; they are gone when the file has been
\* emitted; and the style element is never attached outside a call of
\* generatePdf.
OverrideScoped ==
    /\ pc = "capturing" =>
          /\ styleEl
          /\ \A m \in Markers : classes[m] # {}
    /\ saved =>
          /\ ~styleEl
          /\ \A m \in Markers : classes[m] = {}
    /\ pc \in {"idle", "done", "failed"} => ~styleEl

\* C16: during the capture the i-th marker (1-based, document order) carries
\* the class pdf-page-i, no two markers share a class, and the injected
\* style has exactly one rule per marker, the rule of class pdf-page-i
\* forcing the content i.
CounterOverride ==
    pc = "capturing" =>
        /\ \A i \in Markers : i \in classes[i]
        /\ \A i, j \in Markers : i # j => classes[i] \cap classes[j] = {}
        /\ Len(cssRules) = numMarkers
        /\ \A i \in Markers :
              /\ Cardinality({k \in DOMAIN cssRules : cssRules[k].class = i}) = 1
              /\ \A k \in DOMAIN cssRules :
                    cssRules[k].class = i => cssRules[k].content = i

\* C16 witness: a capture is in flight over an element with two markers;
\* the second carries pdf-page-2 and its rule forces "2".
CounterOverrideWitness ==
    /\ pc = "capturing"
    /\ numMarkers >= 2
    /\ 2 \in classes[2]
    /\ cssRules[2] = [class |-> 2, content |-> 2]

\* C17: a content mutation never runs the layout pass in the same step; the
\* pass runs only in a step in which a timeout fires; the timeout that fires
\* is the one the most recent mutation set, and at least the full delay has
\* passed since that mutation; so a mutation that comes less than the delay
\* after the one before it finds that no pass has run in between.
Debounced ==
    [][/\ nextTimer' # nextTimer =>
             /\ ran' = ran
             /\ passLog' = passLog
             /\ Layout(blocks') = Layout(blocks)
       /\ (passLog' # passLog \/ Layout(blocks') # Layout(blocks)) =>
             ran' # ran
       /\ ran' # ran =>
             /\ timers \ timers' = {timeout}
             /\ now - lastMutation >= DEBOUNCE_DELAY
       /\ (nextTimer' # nextTimer /\ nextTimer > 1
              /\ now - lastMutation < DEBOUNCE_DELAY) =>
             ~firedSinceMutation]_vars

\* C17 witness: two mutations less than the delay apart (both within the
\* first 250 ms); the first one's timeout was cancelled and the second one's
\* has run the pass, 500 ms after the second mutation.
DebouncedWitness ==
    /\ cleared = {1}
    /\ ran = {2}
    /\ lastMutation = 250
    /\ now = 750
    /\ passLog # <<>>

\* C18: a pass resets every block before it lays them out: after the pass a
\* block that does not overflow in this pass has spacer 0 and no page break,
\* whatever spacer and flag the pass found on it, and the spacer of a block
\* that does overflow is the one computed in this pass, with nothing of the
\* old one left in it.
StaleCleared ==
    PassIsCurrent =>
        \A i \in 1..Len(blocks) :
            LET top == passLog[i].blockTop
            IN  IF top + blocks[i].offsetHeight > BandEnd(top)
                THEN blocks[i].marginTop = passLog[i].spacer
                ELSE /\ blocks[i].marginTop = 0
                     /\ ~blocks[i].pageBreak

\* C18 witness: the pass found a spacer and a page break on a block that
\* does not overflow now, and left it with neither.
StaleClearedWitness ==
    /\ PassIsCurrent
    /\ \E i \in 1..Len(blocks) :
          /\ found[i][1] > 0
          /\ found[i][2]
          /\ blocks[i].marginTop = 0
          /\ ~blocks[i].pageBreak

\* C19: applyPageSetup applies the whole bundle in one chained command run:
\* the header update with (headerLeft, headerRight), the footer update with
\* (footerLeft, footerRight) and the margin update with the four margins,
\* never a part of it; without an editor it runs nothing.
WholeBundle ==
    /\ ~editor => lastRun = <<>>
    /\ lastRun # <<>> =>
          /\ Len(lastRun) = 4
          /\ lastRun[1].name = "focus"
          /\ lastRun[2] = [name |-> "updateHeaderContent",
                           args |-> <<headerFooterInput.headerLeft,
                                      headerFooterInput.headerRight>>]
          /\ lastRun[3] = [name |-> "updateFooterContent",
                           args |-> <<headerFooterInput.footerLeft,
                                      headerFooterInput.footerRight>>]
          /\ lastRun[4].name = "updateMargins"
          /\ DOMAIN lastRun[4].args[1] = Sides

\* C19 witness: a bundle with a header, a footer and margins typed by the
\* user has been applied and the dialog closed.
WholeBundleWitness ==
    /\ lastRun # <<>>
    /\ headerFooterInput.headerLeft = "L"
    /\ headerFooterInput.footerLeft = "F"
    /\ lastRun[3].args = <<"F", "{page}">>
    /\ lastRun[4].args[1]["top"] = 72
    /\ ~showHeaderFooterDialog

\* The text is the text of a number.
IsNumeric(s) == s # <<>> /\ ~Number(s).nan

\* C20 (as claimed): each margin input that is a number's text is applied as
\* exactly that number, and only an input that is not a number is replaced
\* by the fallback 50.
MarginsExact ==
    lastRun # <<>> =>
        \A side \in Sides :
            lastRun[4].args[1][side] =
                IF IsNumeric(marginInput[side])
                THEN Number(marginInput[side]).val
                ELSE MARGIN_FALLBACK

\* C24: every block whose bottom exceeds the printable end of its page is
\* pushed.  The spacer the pass computes for it lies in
\* (marginTop, pageHeight + marginTop], so the `spacer > 0` test never
\* discards it, and a block that carries a spacer carries the page-break
\* flag.
SpacerInRange ==
    PassIsCurrent =>
        \A i \in 1..Len(blocks) :
            /\ passLog[i].overflow =>
                  /\ passLog[i].blockTop >= 0
                  /\ geom.marginTop < passLog[i].spacer
                  /\ passLog[i].spacer <= geom.pageHeight + geom.marginTop
                  /\ passLog[i].pushed
                  /\ blocks[i].marginTop = passLog[i].spacer
                  /\ blocks[i].pageBreak
            /\ blocks[i].marginTop > 0 => blocks[i].pageBreak
            /\ blocks[i].pageBreak <=> passLog[i].overflow

\* C24 witness: a pass has pushed a block whose top was on the second page
\* or later.
SpacerInRangeWitness ==
    /\ PassIsCurrent
    /\ \E i \in 1..Len(blocks) :
          /\ passLog[i].overflow
          /\ passLog[i].pageIndex >= 1
          /\ blocks[i].pageBreak
          /\ blocks[i].marginTop > geom.marginTop

\* C25: the slicing loop terminates.  Whenever control is at the loop test,
\* position + heightLeft = H, position is pageNumber * P and so a multiple
\* of P, and the number of iterations done is at most ceil(H / P); every
\* iteration makes heightLeft smaller by P > 0; and when the loop has been
\* left, -P < heightLeft <= 0.
SlicingLoopInvariant ==
    /\ pdfHeight > 0
    /\ pc = "slicing" =>
          /\ position + heightLeft = imgHeight
          /\ position = pageNumber * pdfHeight
          /\ position % pdfHeight = 0
          /\ heightLeft > 0 - pdfHeight
          /\ pageNumber <= Ceil(imgHeight, pdfHeight)
          /\ LoopContinues(heightLeft) =>
                pageNumber < Ceil(imgHeight, pdfHeight)
    /\ pc = "done" =>
          /\ 0 - pdfHeight < heightLeft
          /\ heightLeft <= 0
          /\ position + heightLeft = imgHeight
          /\ pageNumber = Ceil(imgHeight, pdfHeight)

\* C25 witness: the loop has been left after three iterations on an image
\* whose height is not a multiple of the page height.
SlicingLoopWitness ==
    /\ pc = "done"
    /\ pageNumber = 3
    /\ heightLeft < 0
    /\ imgHeight % pdfHeight # 0

----------------------------------------------------------------------------
(* The paper as the export sees it                                         *)

\* jsPDF('p', 'mm', 'a4'): the width of the output page in mm.
A4_WIDTH == 210

\* toJpeg(element, {width: 800, ...}): the width of the capture in px.
CAPTURE_WIDTH == 800

\* The longest document of the paper-export specification.
MaxPaperBlocks == 11

Max(a, b) == IF a > b THEN a ELSE b

\* Documents of n equal blocks: the kinds of the editor specification and a
\* block that fills the printable band.
PaperKinds(g) == BlockKinds(g) \cup {<<Band(g), 0>>}

PaperDocuments(g) ==
    {[i \in 1..n |-> Block(k[1], k[2])] :
        n \in 0..MaxPaperBlocks, k \in PaperKinds(g)}

\* Normal flow inside the paper (padding 20mm, taken as the 75px the pass
\* assumes): the y at which the margin box of block i begins.
RECURSIVE FlowY(_)
FlowY(i) ==
    IF i = 1 THEN geom.marginTop
    ELSE FlowY(i - 1) + blocks[i - 1].marginTop + blocks[i - 1].offsetHeight
             + blocks[i - 1].marginBottom

\* The border box of block i as rendered: [top, bottom).
RenderedTop(i) == FlowY(i) + blocks[i].marginTop
RenderedBottom(i) == RenderedTop(i) + blocks[i].offsetHeight

\* The height of the paper: its padding around the flow of its blocks, and
\* at least minHeight: '1123px'.
PaperHeight ==
    Max(geom.pageHeight, FlowY(Len(blocks) + 1) + geom.marginBottom)

\* Mutant: the height of the capture in px is taken for the height in mm.
ImgHeightUnscaled(w, h) == h

\* ratio = imgProps.height / imgProps.width; imgHeight = pdfWidth * ratio,
\* for a capture w wide and h high.  Heights are whole numbers here: the
\* quotient is rounded up, which leaves ceil(imgHeight / pdfHeight) and the
\* multiples of pdfHeight below imgHeight as they are.
ImgHeight(w, h) == Ceil(A4_WIDTH * h, w)

\* toJpeg resolves with the picture of the paper as the blocks lie now.
CapturePaper == Captured(ImgHeight(CAPTURE_WIDTH, PaperHeight))

InitPaperExport ==
    /\ geom = CodeGeometry
    /\ dom = "contentArea"
    /\ blocks \in PaperDocuments(geom)
    /\ editor = FALSE
    /\ mounted = TRUE
    /\ timers = {}
    /\ timeout = 0
    /\ nextTimer = 1
    /\ cleared = {}
    /\ ran = {}
    /\ passLog = <<>>
    /\ InitClock
    /\ InitSetup
    /\ PdfQuiet
    /\ UiQuiet

NextPaperExport ==
    \/ EditorReady /\ UNCHANGED <<clockVars, found>>
    \/ TimerFire /\ UNCHANGED <<clockVars, found>>
    \/ GeneratePdf /\ UNCHANGED uiVars
    \/ CapturePaper /\ UNCHANGED uiVars
    \/ SliceStep /\ UNCHANGED uiVars
    \/ Save /\ UNCHANGED uiVars

\* A document is laid out and the paper is exported, before the pass or
\* after it.
SpecPaperExport == InitPaperExport /\ [][NextPaperExport]_vars

\* The export cuts the picture at y (in mm, a positive multiple of the page
\* height) strictly inside the rendered block i: top < cut < bottom with
\* the block's px scaled by A4_WIDTH / CAPTURE_WIDTH.
CutInside(y, i) ==
    /\ RenderedTop(i) * A4_WIDTH < y * CAPTURE_WIDTH
    /\ y * CAPTURE_WIDTH < RenderedBottom(i) * A4_WIDTH

\* Block i lies within the printable band of one logical page.
WithinOnePage(i) ==
    /\ RenderedTop(i) >= BandStart(RenderedTop(i))
    /\ RenderedBottom(i) <= BandEnd(RenderedTop(i))

\* C22: the export's cuts are the multiples of the output page height below
\* the scaled height of the picture and nothing else: the height of the
\* picture is the height of the paper at the capture scaled by
\* A4_WIDTH / CAPTURE_WIDTH, page k of the output begins at
\* (k - 1) * pdfHeight of the picture, and the number of pages follows from
\* the picture's height alone, whatever page-break flags the blocks carry.
CutsIgnorePagination ==
    /\ [][pc = "capturing" /\ pc' = "slicing" =>
              /\ imgHeight' * CAPTURE_WIDTH >= A4_WIDTH * PaperHeight
              /\ (imgHeight' - 1) * CAPTURE_WIDTH < A4_WIDTH * PaperHeight]_vars
    /\ [](pc \in {"slicing", "done"} =>
              /\ \A k \in 1..Len(images) :
                    0 - images[k].y = (k - 1) * pdfHeight
              /\ Len(images) = pageNumber
              /\ pc = "done" => Len(images) = Ceil(imgHeight, pdfHeight))

\* C22 witness: after a layout pass every block lies within the printable
\* band of one logical page, and yet the finished export has cut strictly
\* inside a block.
CutInsideBlockWitness ==
    /\ PassIsCurrent
    /\ pc = "done"
    /\ imgHeight = ImgHeight(CAPTURE_WIDTH, PaperHeight)
    /\ Len(blocks) > 0
    /\ \A i \in 1..Len(blocks) :
          /\ WithinOnePage(i)
          /\ RenderedTop(i) = PlacedTop(i)
    /\ \E i \in 1..Len(blocks), k \in 2..Len(images) :
          CutInside(0 - images[k].y, i)

----------------------------------------------------------------------------
(* The scheduler under fairness                                            *)

\* The rendered height of block i changes with no transaction of the
\* editor (an image has loaded, the window was resized): getHTML() is the
\* same, no effect runs and no timeout is set.
Reflow ==
    /\ mounted /\ editor
    /\ \E i \in 1..Len(blocks), k \in BlockKinds(geom) :
          /\ k[1] # blocks[i].offsetHeight
          /\ blocks' = [blocks EXCEPT ![i].offsetHeight = k[1]]
    /\ UNCHANGED <<geom, dom, editor, mounted, timers, timeout, nextTimer,
                   cleared, ran, passLog, clockVars, found, setupVars,
                   sessionVars, pdfVars, uiVars>>

\* The effect has set a timeout: what the blocks were at that moment.
Remembered ==
    /\ atScheduling' = blocks'
    /\ UNCHANGED <<now, due, lastMutation, firedSinceMutation, found>>

\* The browser runs the pending timeout.
PendingTimerFire == TimerFire /\ UNCHANGED <<clockVars, found>>

InitScheduler ==
    /\ InitLayout
    /\ geom = CodeGeometry
    /\ dom = "contentArea"
    /\ Len(blocks) = 1
    /\ InitClock
    /\ InitSetup
    /\ PdfQuiet
    /\ UiQuiet

NextScheduler ==
    \/ EditorReady /\ Remembered
    \/ EditBlock /\ Remembered
    \/ Reflow
    \/ PendingTimerFire
    \/ Unmount /\ UNCHANGED <<clockVars, found>>

\* The pagination effect on a document of one block with the paper
\* present; a timeout that stays pending is run by the browser sooner or
\* later.
SpecScheduler ==
    InitScheduler /\ [][NextScheduler]_vars /\ WF_vars(PendingTimerFire)

\* C23: once the mutations have stopped, and while the editor stays mounted
\* with its paper present, the timeout of the last mutation runs the pass;
\* and a pass leaves on the blocks the layout of their sizes as they are
\* when the timeout fires, sizes that the pass itself does not change.
SchedulerLive ==
    /\ <>[](mounted /\ timeout # 0 => timeout \in ran /\ passLog # <<>>)
    /\ [][ran' # ran =>
              /\ blocks' = LayoutPass(blocks, geom).blocks
              /\ Sizes(blocks') = Sizes(blocks)]_vars

\* C23 witness: the height of a block changed after the timeout was set,
\* and the timeout has run the pass on the changed block.
SchedulerLiveWitness ==
    /\ mounted
    /\ timeout # 0
    /\ timeout \in ran
    /\ Sizes(atScheduling) # Sizes(blocks)
    /\ blocks = LayoutPass(blocks, geom).blocks
    /\ \E i \in 1..Len(blocks) : blocks[i].pageBreak

----------------------------------------------------------------------------
(* The dashboard's download cycle under fairness                           *)

InitDashboard ==
    /\ InitPdf
    /\ backgroundImage = ""
    /\ pdfHeight = A4_HEIGHT
    /\ LayoutQuiet
    /\ InitUi
    /\ onPage = "dashboard"
    /\ ~elementPresent

\* The promise of axios.get settles.
FetchSettles == FetchResolve \/ FetchReject

\* The promise of toJpeg settles.
CaptureSettles == (CaptureResolve \/ CaptureReject) /\ UNCHANGED uiVars

\* The slicing loop and pdf.save run on; a jsPDF call may throw instead.
SlicingRuns == (SliceStep \/ Save) /\ UNCHANGED uiVars

NextDashboard ==
    \/ HandleDownloadPdf
    \/ FetchSettles
    \/ PdfTimerFire
    \/ CaptureSettles
    \/ SlicingRuns
    \/ SliceThrow /\ UNCHANGED uiVars
    \/ DownloadSettled
    \/ Navigate

\* Downloads from the dashboard, one after another.  Promises settle, the
\* effect's timer fires unless it is cleared, and synchronous code runs on.
SpecDashboard ==
    /\ InitDashboard
    /\ [][NextDashboard]_vars
    /\ WF_vars(FetchSettles)
    /\ WF_vars(PdfTimerFire)
    /\ WF_vars(CaptureSettles)
    /\ WF_vars(SlicingRuns)
    /\ WF_vars(DownloadSettled)

\* C30: while the dashboard stays mounted, a download that has set
\* isGeneratingPdf comes to an end with isGeneratingPdf false and
\* pdfTargetProposal null, whether the fetch fails, the export succeeds or
\* the export throws.  A fetch starts only from an accepted request (one
\* made while isGeneratingPdf is false), the effect's timer is set only
\* when that fetch has resolved, and generatePdf is called only by that
\* timer, so at most once for each accepted request; while isGeneratingPdf
\* is true no fetch starts.
DownloadCycle ==
    /\ (isGeneratingPdf /\ pageMounted) ~>
           (~pageMounted \/ (~isGeneratingPdf /\ ~pdfTargetProposal))
    /\ [][/\ (uiPc # "fetching" /\ uiPc' = "fetching") =>
               (uiPc = "idle" /\ ~isGeneratingPdf /\ isGeneratingPdf')
          /\ (uiPc # "timer" /\ uiPc' = "timer") => uiPc = "fetching"
          /\ (pc' = "capturing" /\ pc # "capturing") =>
               (uiPc = "timer" /\ uiPc' = "awaiting" /\ isGeneratingPdf)
          /\ (uiPc # "awaiting" /\ uiPc' = "awaiting") => uiPc = "timer"
          /\ (pdfTargetProposal /\ pageMounted') =>
               (isGeneratingPdf /\ elementPresent)]_vars

\* C30 witness: an export that threw has ended its cycle: the failure has
\* been reported, the flag is false and the hidden editor is gone.
DownloadCycleWitness ==
    /\ pageMounted
    /\ uiPc = "idle"
    /\ thrown = PdfError
    /\ DashboardExportNotice \in notices
    /\ ~isGeneratingPdf
    /\ ~pdfTargetProposal
    /\ ~elementPresent

----------------------------------------------------------------------------
(* Several handleExportPDF invocations on the editor page                  *)

\* The export button is pressed: the guard, the busy flag, then invocation
\* c waits for import('@/utils/pdfGenerator').
ExportClicked(c) ==
    /\ onPage = "editor" /\ pageMounted
    /\ exports[c].pc = "idle"
    /\ elementPresent
    /\ isSaving' = TRUE
    /\ notices' = {}
    /\ exports' = [exports EXCEPT ![c].pc = "importing"]
    /\ UNCHANGED <<styleEl, cssRules, classes, backgroundImage>>

\* The import resolves and invocation c calls generatePdf, which runs up to
\* `await toJpeg(...)`: the background is saved and hidden, the style
\* element is looked up by its id and created if there is none, the markers
\* get their classes and the rules are written.
ExportStarted(c) ==
    /\ exports[c].pc = "importing"
    /\ exports' = [exports EXCEPT ![c].pc = "capturing",
                                  ![c].originalBackground = backgroundImage]
    /\ backgroundImage' = "none"
    /\ styleEl' = TRUE
    /\ classes' = [m \in Markers |-> classes[m] \cup {PageNum(m - 1)}]
    /\ cssRules' = [m \in Markers |->
                       [class |-> PageNum(m - 1), content |-> PageNum(m - 1)]]
    /\ UNCHANGED <<isSaving, notices>>

\* toJpeg of invocation c resolves: the cleanup after the await removes the
\* classes and the style element and puts back the background it saved.
ExportCaptured(c) ==
    /\ exports[c].pc = "capturing"
    /\ exports' = [exports EXCEPT ![c].pc = "slicing"]
    /\ classes' = [m \in Markers |-> classes[m] \ {PageNum(m - 1)}]
    /\ styleEl' = FALSE
    /\ cssRules' = <<>>
    /\ backgroundImage' = exports[c].originalBackground
    /\ UNCHANGED <<isSaving, notices>>

\* toJpeg of invocation c rejects, or one of its jsPDF calls throws:
\* generatePdf logs and rethrows.
ExportThrew(c) ==
    /\ exports[c].pc \in {"capturing", "slicing"}
    /\ exports' = [exports EXCEPT ![c].pc = "failed"]
    /\ UNCHANGED <<styleEl, cssRules, classes, backgroundImage, isSaving,
                   notices>>

\* The slicing loop and pdf.save of invocation c, which work on locals.
ExportSaved(c) ==
    /\ exports[c].pc = "slicing"
    /\ exports' = [exports EXCEPT ![c].pc = "saved"]
    /\ UNCHANGED <<styleEl, cssRules, classes, backgroundImage, isSaving,
                   notices>>

\* generatePdf of invocation c has settled: catch (if it rejected) and
\* finally of handleExportPDF.
ExportFinished(c) ==
    /\ exports[c].pc \in {"saved", "failed"}
    /\ notices' = IF exports[c].pc = "failed"
                  THEN notices \cup {EditorExportNotice} ELSE notices
    /\ isSaving' = BusyAfterFinally(IF exports[c].pc = "failed"
                                    THEN PdfError ELSE NoError)
    /\ exports' = [exports EXCEPT ![c].pc = "idle"]
    /\ UNCHANGED <<styleEl, cssRules, classes, backgroundImage>>

\* What no step of an invocation changes.
ExportFrame ==
    UNCHANGED <<paperVars, server, proposal, fetching, title, content, html,
                requests, typed,
                pc, numMarkers, elementPresent, originalBackground, pdfHeight,
                imgHeight, heightLeft, position, pageNumber, pdfPages, images,
                saved, raised, thrown, onPage, pageMounted, uiPc,
                isGeneratingPdf, pdfTargetProposal>>

InitExports ==
    /\ InitPdf
    /\ elementPresent
    /\ pdfHeight = A4_HEIGHT
    /\ LayoutQuiet
    /\ UiQuiet

NextExports ==
    \E c \in Calls :
        \/ ExportClicked(c) /\ ExportFrame
        \/ ExportStarted(c) /\ ExportFrame
        \/ ExportCaptured(c) /\ ExportFrame
        \/ ExportThrew(c) /\ ExportFrame
        \/ ExportSaved(c) /\ ExportFrame
        \/ ExportFinished(c) /\ ExportFrame

\* The export button of the editor page, pressed again while an export is
\* under way.
SpecExports == InitExports /\ [][NextExports]_vars

\* C26 (as claimed): while the capture of any handleExportPDF invocation
\* is in flight, the style element pdf-export-styles is attached and every
\* page-number marker carries its class.
OverrideHeldForEveryCapture ==
    \A c \in Calls :
        exports[c].pc = "capturing" =>
            /\ styleEl
            /\ \A m \in Markers : classes[m] # {}

----------------------------------------------------------------------------
(* The editor page: loading, editing and saving a proposal                 *)

\* The effect of the page on [proposal, content], for loaded data p:
\*     setTitle(proposal.title);
\*     if (proposal.status === 'generating_sections' || !content)
\*         setContent(proposal.content);
TitleEffect(p, t) == IF p.present THEN p.title ELSE t
ContentEffect(p, c) == IF p.present /\ c = Empty THEN p.content ELSE c

\* The effect of the Editor on [editor, initialContent] calls setContent:
\*     editor && initialContent && editor.getHTML() !== initialContent
ReplacesDocument(h, initialContent) ==
    initialContent # Empty /\ h # initialContent

\* What no step of the page's session changes.
SessionFrame ==
    UNCHANGED <<paperVars, exports, pdfVars, onPage, pageMounted, uiPc,
                isGeneratingPdf, pdfTargetProposal, notices>>

\* The fetch of the query resolves with what the server holds.  On the
\* first load the page leaves its spinner and mounts the Editor with
\* content: initialContent.  On a refetch both effects run if the data has
\* changed; setContent may report the new document through onUpdate or not
\* (its emitUpdate default differs between TipTap versions).
QueryResolved ==
    /\ fetching
    /\ fetching' = FALSE
    /\ IF ~pageMounted
       THEN UNCHANGED <<proposal, title, content, html>>
       ELSE LET data == [present |-> TRUE, title |-> server.title,
                         content |-> server.content]
            IN  /\ proposal' = data
                /\ IF data = proposal
                   THEN UNCHANGED <<title, content, html>>
                   ELSE /\ title' = TitleEffect(data, title)
                        /\ IF ~proposal.present
                           THEN /\ html' = data.content
                                /\ content' = ContentEffect(data, content)
                           ELSE IF /\ data.content # proposal.content
                                   /\ ReplacesDocument(html, data.content)
                           THEN /\ html' = data.content
                                /\ \E emitUpdate \in BOOLEAN :
                                      content' = IF emitUpdate
                                                 THEN data.content
                                                 ELSE ContentEffect(data, content)
                           ELSE /\ html' = html
                                /\ content' = ContentEffect(data, content)
    /\ UNCHANGED <<server, requests, typed, isSaving>>
    /\ SessionFrame

\* The user types in the title input: setTitle(e.target.value).
EditTitle ==
    /\ pageMounted /\ proposal.present
    /\ typed < Stored + MaxTyped
    /\ typed' = typed + 1
    /\ title' = typed'
    /\ UNCHANGED <<server, proposal, fetching, content, html, requests,
                   isSaving>>
    /\ SessionFrame

\* The user types in the Editor: onUpdate calls handleContentChange with
\* editor.getHTML(), content changes and the page's effect runs again.
EditContent ==
    /\ pageMounted /\ proposal.present
    /\ typed < Stored + MaxTyped
    /\ typed' = typed + 1
    /\ html' = typed'
    /\ content' = ContentEffect(proposal, typed')
    /\ title' = TitleEffect(proposal, title)
    /\ UNCHANGED <<server, proposal, fetching, requests, isSaving>>
    /\ SessionFrame

\* The save button (disabled while isSaving): handleSave.
HandleSave ==
    /\ pageMounted /\ ~isSaving
    /\ Cardinality(requests) < MaxRequests
    /\ IF ~proposal.present
       THEN UNCHANGED <<isSaving, requests>>
       ELSE /\ isSaving' = TRUE
            /\ requests' = requests \cup
                    {[title |-> title, content |-> content, cause |-> "save"]}
    /\ UNCHANGED <<server, proposal, fetching, title, content, html, typed>>
    /\ SessionFrame

\* An update request succeeds: the server stores it, onSuccess clears the
\* flag and invalidates the query, which is fetched again while the page
\* observes it.
SaveSucceeds ==
    /\ \E r \in requests :
          /\ requests' = requests \ {r}
          /\ server' = [title |-> r.title, content |-> r.content]
    /\ isSaving' = FALSE
    /\ fetching' = (fetching \/ pageMounted)
    /\ UNCHANGED <<proposal, title, content, html, typed>>
    /\ SessionFrame

\* An update request fails: useMutation has no onError.
SaveFails ==
    /\ \E r \in requests : requests' = requests \ {r}
    /\ UNCHANGED <<server, proposal, fetching, title, content, html, typed,
                   isSaving>>
    /\ SessionFrame

InitEditorPage ==
    /\ InitPdf
    /\ numMarkers = 0
    /\ backgroundImage = ""
    /\ pdfHeight = A4_HEIGHT
    /\ LayoutQuiet
    /\ UiQuiet

NextEditorPage ==
    \/ QueryResolved
    \/ EditTitle
    \/ EditContent
    \/ HandleSave
    \/ SaveSucceeds
    \/ SaveFails
    \/ Navigate
    \/ ExportClicked(1) /\ ExportFrame
    \/ ExportStarted(1) /\ ExportFrame
    \/ ExportCaptured(1) /\ ExportFrame
    \/ ExportThrew(1) /\ ExportFrame
    \/ ExportSaved(1) /\ ExportFrame
    \/ ExportFinished(1) /\ ExportFrame

\* One visit of the editor page.
SpecEditorPage == InitEditorPage /\ [][NextEditorPage]_vars

\* The user's title or document is not what the server holds.
Unsaved == proposal.present /\ (title # server.title \/ html # server.content)

\* C21 (as claimed): an update request is sent only by the save action or
\* by leaving the page, and leaving the page with unsaved edits sends one.
SavedOnDemandOnly ==
    [][/\ \A r \in requests' \ requests : r.cause \in {"save", "navigate"}
       /\ (pageMounted /\ ~pageMounted' /\ Unsaved) =>
             \E r \in requests' \ requests : r.cause = "navigate"]_vars

\* C27 (as claimed): once the proposal is loaded, the document of the
\* editor changes only when the user types: no refetch after a save puts
\* an older content in the place of what the user has typed since.
EditsSurviveSave ==
    [][(proposal.present /\ html' # html) =>
           (typed' # typed /\ html' = typed')]_vars

\* C28 (as claimed): a content edit, with no save and no new data from the
\* server in the same step, leaves the title the user has typed.
TitleSurvivesContentEdit ==
    [][(html' # html /\ typed' # typed /\ proposal' = proposal
          /\ server' = server /\ requests' = requests) =>
           title' = title]_vars

\* C29 (as claimed): isSaving is true while an update request is in
\* flight, and false once no request is in flight and no export is under
\* way.
BusyTracksWork ==
    /\ requests # {} => isSaving
    /\ (requests = {} /\ exports[1].pc = "idle") => ~isSaving

====
